---- MODULE Spec2Model ----
(***************************************************************************)
(* A model of the centinel library: the Money value type (core.py) and     *)
(* the ExchangeRateManager with the convert function (currency.py).        *)
(*                                                                         *)
(* Numbers.  Python integers are unbounded while the model checker's are   *)
(* 32 bits wide, and MAX_VALUE is the largest of them, so an integer that  *)
(* may leave [MIN_VALUE, MAX_VALUE] is kept as a "wide" integer            *)
(* [hi, lo] that stands for hi * 100 + lo with lo in 0..99.  A Decimal is  *)
(* a sign, a whole part, three decimal digits (mil, in thousandths) and a  *)
(* power of ten: (whole + mil / 1000) * 10^e10.  A float that is read back *)
(* through str() is the decimal it prints as; rates are exact rationals    *)
(* [n, d] and the rounding error of a float division or product is not     *)
(* modelled.                                                               *)
(***************************************************************************)
EXTENDS Integers, Sequences, FiniteSets, TLC

VARIABLES
    x, y,              \* two Money objects held by the caller (or NoMoney)
    out,               \* the last Money operation: its inputs and its outcome
    rates,             \* ExchangeRateManager._rates
    historical_rates,  \* ExchangeRateManager._historical_rates
    lock,              \* ExchangeRateManager._lock: its holder, or Free
    stack,             \* per thread: the frames of the calls in progress
    ret,               \* per thread: the outcome of its last finished call
    writer,            \* per live key: the update_rate call that wrote it last
    calls,             \* number of calls started so far
    pool,              \* MoneyPool._pool of _money_pool
    objects,           \* the attributes set on each OptimizedMoney object
    refs,              \* the OptimizedMoney objects the caller obtained, in order
    live,              \* those of them that the caller did not hand to to_money
    cache,             \* the lru_cache of cached_exchange_rate
    operation_times,   \* PerformanceMetrics.operation_times
    operation_counts,  \* PerformanceMetrics.operation_counts
    metrics_lock,      \* PerformanceMetrics._lock: its holder, or Free
    processor_lock,    \* BatchProcessor._lock: its holder, or Free
    completed          \* per operation name: the record_operation calls that
                       \* returned, the batch calls that returned a value or raised

moneyVars == <<x, y, out>>
mgrVars == <<rates, historical_rates, lock, stack, ret, writer, calls>>
optVars == <<pool, objects, refs, live, cache, operation_times, operation_counts,
             metrics_lock, processor_lock, completed>>
vars == <<moneyVars, mgrVars, optVars>>

-----------------------------------------------------------------------------
(* Currency and the exceptions *)

Currency == {"USD", "EUR", "GBP", "JPY"}

MoneyOverflowError == "MoneyOverflowError"
InvalidAmountError == "InvalidAmountError"
CurrencyMismatchError == "CurrencyMismatchError"
ValueError == "ValueError"
ZeroDivisionError == "ZeroDivisionError"
InvalidOperation == "decimal.InvalidOperation"
NoError == "none"

\* None, where an argument or a value is absent
NoArg == [arg |-> FALSE]

-----------------------------------------------------------------------------
(* Wide integers: Python's int at the places where it can leave 32 bits *)

MAX_VALUE == 2147483647
MIN_VALUE == -2147483647 - 1

WNorm(h, l) == [hi |-> h + (l \div 100), lo |-> l % 100]
W(a) == [hi |-> a \div 100, lo |-> a % 100]
WAdd(u, v) == WNorm(u.hi + v.hi, u.lo + v.lo)
WNeg(u) == WNorm(-u.hi - 1, 100 - u.lo)
WSub(u, v) == WAdd(u, WNeg(v))
WMul(u, k) == WNorm(u.hi * k, u.lo * k)
WLeq(u, v) == u.hi < v.hi \/ (u.hi = v.hi /\ u.lo <= v.lo)
\* the int of a wide integer that is in range
WInt(u) == IF u.hi < 0 THEN (u.hi + 1) * 100 + (u.lo - 100) ELSE u.hi * 100 + u.lo

\* MIN_VALUE <= result <= MAX_VALUE
InRange(u) == WLeq(W(MIN_VALUE), u) /\ WLeq(u, W(MAX_VALUE))

\* floor(u / d) and the remainder, for a small positive d
WDivMod(u, d) ==
    LET rest == (u.hi % d) * 100 + u.lo
    IN  [q |-> [hi |-> u.hi \div d, lo |-> rest \div d], r |-> rest % d]

\* Python's round() of the exact quotient u / d: ties go to the even integer
PyRound(u, d) ==
    LET qr == WDivMod(u, d)
        up == WAdd(qr.q, W(1))
    IN  IF 2 * qr.r < d THEN qr.q
        ELSE IF 2 * qr.r > d THEN up
        ELSE IF qr.q.lo % 2 = 0 THEN qr.q ELSE up

-----------------------------------------------------------------------------
(* Decimal *)

NotNumeric == [invalid |-> TRUE]

Dec(neg, whole, mil, e10) == [neg |-> neg, whole |-> whole, mil |-> mil, e10 |-> e10]

RECURSIVE Digits(_)
Digits(n) == IF n < 10 THEN 1 ELSE 1 + Digits(n \div 10)

DecimalPrec == 28

\* whole * 10^e, left as it is once it is beyond MAX_VALUE cents: every such
\* amount is out of range
RECURSIVE Scaled(_, _)
Scaled(whole, e) ==
    IF e = 0 \/ whole = 0 \/ whole > MAX_VALUE \div 100 THEN whole
    ELSE Scaled(whole * 10, e - 1)

\* the same with ROUND_HALF_EVEN
QuantizeHalfEven(d) ==
    LET cen == d.mil \div 10
        up  == IF d.mil % 10 > 5 \/ (d.mil % 10 = 5 /\ cen % 2 = 1) THEN 1 ELSE 0
    IN  [neg |-> d.neg,
         whole |-> Scaled(d.whole, d.e10) + ((cen + up) \div 100),
         cen |-> (cen + up) % 100]

\* amount.quantize(Decimal('0.01'), rounding=ROUND_HALF_UP): the magnitude in
\* whole units and cents, a discarded digit of 5 or more rounds it up
QuantizeHalfUp(d) ==
    LET cen == d.mil \div 10
        up  == IF d.mil % 10 >= 5 THEN 1 ELSE 0
    IN  [neg |-> d.neg,
         whole |-> Scaled(d.whole, d.e10) + ((cen + up) \div 100),
         cen |-> (cen + up) % 100]

\* the number of digits of the quantized coefficient (e10 > 0 comes with
\* mil = 0 and whole > 0: a float or int printed without decimal places)
QuantizedDigits(d) ==
    IF d.e10 = 0 THEN Digits(QuantizeHalfUp(d).whole) + 2
    ELSE Digits(d.whole) + d.e10 + 2

\* int(amount * 100) of a quantized amount
ToCents(q) ==
    IF q.neg THEN WNeg(WNorm(q.whole, q.cen)) ELSE WNorm(q.whole, q.cen)

\* Decimal(str(c / 100)) for an int c: the decimal with two places
CentsToDecimal(u) ==
    IF u.hi >= 0 THEN Dec(FALSE, u.hi, u.lo * 10, 0)
    ELSE IF u.lo = 0 THEN Dec(TRUE, -u.hi, 0, 0)
    ELSE Dec(TRUE, -u.hi - 1, (100 - u.lo) * 10, 0)

-----------------------------------------------------------------------------
(* Money *)

NoMoney == [none |-> TRUE]

Money(a, c) == [amount |-> a, currency |-> c]

Raise(e) == [err |-> e, val |-> NoMoney]
Return(m) == [err |-> NoError, val |-> m]

\* Money_init with the bounds themselves excluded from the range
Money_init_strict(amount, currency) ==
    IF amount = NotNumeric THEN Raise(InvalidAmountError)
    ELSE IF QuantizedDigits(amount) > DecimalPrec THEN Raise(InvalidOperation)
    ELSE LET amount_cents == ToCents(QuantizeHalfUp(amount))
         IN  IF ~InRange(amount_cents) \/ amount_cents \in {W(MIN_VALUE), W(MAX_VALUE)}
             THEN Raise(MoneyOverflowError)
             ELSE Return(Money(WInt(amount_cents), currency))

Money_init(amount, currency) ==
    IF amount = NotNumeric THEN Raise(InvalidAmountError)
    ELSE IF QuantizedDigits(amount) > DecimalPrec THEN Raise(InvalidOperation)
    ELSE LET amount_cents == ToCents(QuantizeHalfUp(amount))
         IN  IF ~InRange(amount_cents) THEN Raise(MoneyOverflowError)
             ELSE Return(Money(WInt(amount_cents), currency))

Money_amount(m) == CentsToDecimal(W(m.amount))

validate_operation(self, other) ==
    IF self.currency # other.currency THEN ValueError ELSE NoError

Money_add(self, other) ==
    LET result == WAdd(W(self.amount), W(other.amount))
    IN  IF validate_operation(self, other) # NoError
        THEN Raise(validate_operation(self, other))
        ELSE IF ~InRange(result) THEN Raise(MoneyOverflowError)
        ELSE Money_init(CentsToDecimal(result), self.currency)

\* a subtraction with its operands exchanged
Money_sub_reversed(self, other) ==
    LET result == WSub(W(other.amount), W(self.amount))
    IN  IF validate_operation(self, other) # NoError
        THEN Raise(validate_operation(self, other))
        ELSE IF ~InRange(result) THEN Raise(MoneyOverflowError)
        ELSE Money_init(CentsToDecimal(result), self.currency)

Money_sub(self, other) ==
    LET result == WSub(W(self.amount), W(other.amount))
    IN  IF validate_operation(self, other) # NoError
        THEN Raise(validate_operation(self, other))
        ELSE IF ~InRange(result) THEN Raise(MoneyOverflowError)
        ELSE Money_init(CentsToDecimal(result), self.currency)

\* a factor is the rational n / d with d a power of two (an int when d = 1)
Money_mul(self, factor) ==
    LET result == PyRound(WMul(W(self.amount), factor.n), factor.d)
    IN  IF ~InRange(result) THEN Raise(MoneyOverflowError)
        ELSE Money_init(CentsToDecimal(result), self.currency)

Money_truediv(self, factor) ==
    IF factor.n = 0 THEN Raise(ZeroDivisionError)
    ELSE LET num == WMul(W(self.amount), IF factor.n < 0 THEN -factor.d ELSE factor.d)
             den == IF factor.n < 0 THEN -factor.n ELSE factor.n
             result == PyRound(num, den)
         IN  Money_init(CentsToDecimal(result), self.currency)

-----------------------------------------------------------------------------
(* Rates: a float is the rational n / d in lowest terms *)

RECURSIVE GCD(_, _)
GCD(a, b) == IF b = 0 THEN a ELSE GCD(b, a % b)

Abs(a) == IF a < 0 THEN -a ELSE a

R(n, d) == LET g == GCD(Abs(n), d) IN [n |-> n \div g, d |-> d \div g]

One == R(1, 1)

\* 1.0 / rate, for rate > 0
FInv(rate) == R(rate.d, rate.n)

\* a * b
FMul(a, b) == R(a.n * b.n, a.d * b.d)

-----------------------------------------------------------------------------
(* ExchangeRateManager *)

\* what a caller can pass for a currency: Python does not check the type
AnyCurrency == Currency \cup {"INVALID"}

\* a seed table without the quote of EUR in USD
SeedRates_sparse ==
    <<"USD", "EUR">> :> R(85, 100)   @@ <<"USD", "GBP">> :> R(73, 100)
 @@ <<"USD", "JPY">> :> R(110, 1)
 @@ <<"EUR", "GBP">> :> R(86, 100)   @@ <<"EUR", "JPY">> :> R(1295, 10)
 @@ <<"GBP", "USD">> :> R(137, 100)  @@ <<"GBP", "EUR">> :> R(116, 100)
 @@ <<"GBP", "JPY">> :> R(1507, 10)  @@ <<"JPY", "USD">> :> R(91, 10000)
 @@ <<"JPY", "EUR">> :> R(77, 10000) @@ <<"JPY", "GBP">> :> R(66, 10000)

SeedRates ==
    <<"USD", "EUR">> :> R(85, 100)   @@ <<"USD", "GBP">> :> R(73, 100)
 @@ <<"USD", "JPY">> :> R(110, 1)    @@ <<"EUR", "USD">> :> R(118, 100)
 @@ <<"EUR", "GBP">> :> R(86, 100)   @@ <<"EUR", "JPY">> :> R(1295, 10)
 @@ <<"GBP", "USD">> :> R(137, 100)  @@ <<"GBP", "EUR">> :> R(116, 100)
 @@ <<"GBP", "JPY">> :> R(1507, 10)  @@ <<"JPY", "USD">> :> R(91, 10000)
 @@ <<"JPY", "EUR">> :> R(77, 10000) @@ <<"JPY", "GBP">> :> R(66, 10000)

\* d[k] = v on a dict
Put(d, k, v) == [j \in DOMAIN d \cup {k} |-> IF j = k THEN v ELSE d[j]]

EmptyDict == [j \in {} |-> One]

NumThreads == 2
Threads == 1..NumThreads
Free == 0

MaxCalls == 3

NoRet == [fn |-> "none"]
NoRv == [err |-> "unset", val |-> NoArg]
Seed == [t |-> 0]

Frame(fn, from, to, rate, date) ==
    [fn |-> fn, pc |-> "enter", from |-> from, to |-> to, rate |-> rate,
     date |-> date, tmp |-> NoArg, rv |-> NoRv]

Result(f, err, val) ==
    [fn |-> f.fn, from |-> f.from, to |-> f.to, rate |-> f.rate, date |-> f.date,
     amount |-> IF "amount" \in DOMAIN f THEN f.amount ELSE NoArg,
     err |-> err, val |-> val]

Top(t) == stack[t][Len(stack[t])]
Running(t, fn, pc) == stack[t] # <<>> /\ Top(t).fn = fn /\ Top(t).pc = pc

\* the top frame moves on
Goto(t, f) == stack' = [stack EXCEPT ![t][Len(stack[t])] = f]

\* the top frame calls g
Push(t, f, g) == stack' = [stack EXCEPT ![t] = Append([@ EXCEPT ![Len(@)] = f], g)]

\* the top frame returns val or raises err: to its caller's frame, or to the
\* thread's caller when it is the outermost one
Leave(t, err, val) ==
    LET n == Len(stack[t])
    IN  IF n = 1
        THEN /\ stack' = [stack EXCEPT ![t] = <<>>]
             /\ ret' = [ret EXCEPT ![t] = Result(Top(t), err, val)]
        ELSE /\ stack' = [stack EXCEPT ![t] =
                            [SubSeq(@, 1, n - 1) EXCEPT ![n - 1].rv = [err |-> err, val |-> val]]]
             /\ UNCHANGED ret

MgrInit ==
    /\ rates = SeedRates
    /\ historical_rates = EmptyDict
    /\ lock = Free
    /\ stack = [t \in Threads |-> <<>>]
    /\ ret = [t \in Threads |-> NoRet]
    /\ writer = [k \in DOMAIN SeedRates |-> Seed]
    /\ calls = 0

\* a thread calls a public operation of the manager
Call(t, f) ==
    /\ stack[t] = <<>>
    /\ calls < MaxCalls
    /\ calls' = calls + 1
    /\ stack' = [stack EXCEPT ![t] = <<f>>]
    /\ ret' = [ret EXCEPT ![t] = NoRet]
    /\ UNCHANGED <<rates, historical_rates, lock, writer>>

\* an acquisition that does not wait for the lock
Acquire_nowait(t) == lock' = t

\* with self._lock: blocks until the lock is free; the Lock is not reentrant
Acquire(t) == lock = Free /\ lock' = t

\* get_rate without the shortcut for from_currency == to_currency
GetRateEnter_lookup_always(t) ==
    /\ Running(t, "get_rate", "enter")
    /\ Acquire(t) /\ Goto(t, [Top(t) EXCEPT !.pc = "lookup"]) /\ UNCHANGED ret
    /\ UNCHANGED <<rates, historical_rates, writer, calls>>

\* get_rate, up to the acquisition of the lock
GetRateEnter(t) ==
    /\ Running(t, "get_rate", "enter")
    /\ IF Top(t).from = Top(t).to
       THEN Leave(t, NoError, One) /\ UNCHANGED lock
       ELSE Acquire(t) /\ Goto(t, [Top(t) EXCEPT !.pc = "lookup"]) /\ UNCHANGED ret
    /\ UNCHANGED <<rates, historical_rates, writer, calls>>

\* get_rate: the direct lookup, else the first call of the USD derivation
GetRateLookup(t) ==
    /\ Running(t, "get_rate", "lookup")
    /\ LET rate_key == <<Top(t).from, Top(t).to>>
       IN  IF rate_key \in DOMAIN rates
           THEN Leave(t, NoError, rates[rate_key]) /\ lock' = Free
           ELSE /\ Push(t, [Top(t) EXCEPT !.pc = "usd1"],
                        Frame("get_rate", Top(t).from, "USD", NoArg, NoArg))
                /\ UNCHANGED <<lock, ret>>
    /\ UNCHANGED <<rates, historical_rates, writer, calls>>

\* get_rate: the derivation through USD, then through EUR, as the calls return
GetRateDerive(t) ==
    /\ stack[t] # <<>> /\ Top(t).fn = "get_rate"
    /\ Top(t).pc \in {"usd1", "usd2", "eur1", "eur2"}
    /\ LET f == Top(t)
           mismatch == f.rv.err = CurrencyMismatchError
       IN  CASE f.rv.err \notin {NoError, CurrencyMismatchError} ->
                    Leave(t, f.rv.err, NoArg) /\ lock' = Free
             [] f.pc = "usd1" /\ ~mismatch ->
                    /\ Push(t, [f EXCEPT !.pc = "usd2", !.tmp = f.rv.val],
                            Frame("get_rate", "USD", f.to, NoArg, NoArg))
                    /\ UNCHANGED <<lock, ret>>
             [] f.pc = "usd2" /\ ~mismatch ->
                    Leave(t, NoError, FMul(f.tmp, f.rv.val)) /\ lock' = Free
             [] f.pc \in {"usd1", "usd2"} /\ mismatch ->
                    /\ Push(t, [f EXCEPT !.pc = "eur1"],
                            Frame("get_rate", f.from, "EUR", NoArg, NoArg))
                    /\ UNCHANGED <<lock, ret>>
             [] f.pc = "eur1" /\ ~mismatch ->
                    /\ Push(t, [f EXCEPT !.pc = "eur2", !.tmp = f.rv.val],
                            Frame("get_rate", "EUR", f.to, NoArg, NoArg))
                    /\ UNCHANGED <<lock, ret>>
             [] f.pc = "eur2" /\ ~mismatch ->
                    Leave(t, NoError, FMul(f.tmp, f.rv.val)) /\ lock' = Free
             [] f.pc \in {"eur1", "eur2"} /\ mismatch ->
                    Leave(t, CurrencyMismatchError, NoArg) /\ lock' = Free
    /\ UNCHANGED <<rates, historical_rates, writer, calls>>

\* update_rate that takes the lock before it looks at the rate
UpdateRateEnter_unvalidated(t) ==
    /\ Running(t, "update_rate", "enter")
    /\ Acquire(t) /\ Goto(t, [Top(t) EXCEPT !.pc = "forward"]) /\ UNCHANGED ret
    /\ UNCHANGED <<rates, historical_rates, writer, calls>>

\* update_rate, up to the acquisition of the lock
UpdateRateEnter(t) ==
    /\ Running(t, "update_rate", "enter")
    /\ IF Top(t).rate.n <= 0
       THEN Leave(t, ValueError, NoArg) /\ UNCHANGED lock
       ELSE Acquire(t) /\ Goto(t, [Top(t) EXCEPT !.pc = "forward"]) /\ UNCHANGED ret
    /\ UNCHANGED <<rates, historical_rates, writer, calls>>

\* an update that makes room for its inverse by deleting the old one first
UpdateRateForward_drops_inverse(t) ==
    /\ Running(t, "update_rate", "forward")
    /\ LET f == Top(t)
           kept == [k \in DOMAIN rates \ {<<f.to, f.from>>} |-> rates[k]]
       IN  /\ rates' = Put(kept, <<f.from, f.to>>, f.rate)
           /\ writer' = Put(writer, <<f.from, f.to>>, Result(f, NoError, t))
           /\ Goto(t, [f EXCEPT !.pc = "inverse"])
    /\ UNCHANGED <<historical_rates, lock, ret, calls>>

\* self._rates[(from_currency, to_currency)] = rate
UpdateRateForward(t) ==
    /\ Running(t, "update_rate", "forward")
    /\ LET f == Top(t)
       IN  /\ rates' = Put(rates, <<f.from, f.to>>, f.rate)
           /\ writer' = Put(writer, <<f.from, f.to>>, Result(f, NoError, t))
           /\ Goto(t, [f EXCEPT !.pc = "inverse"])
    /\ UNCHANGED <<historical_rates, lock, ret, calls>>

\* update_rate without the write of the inverse rate
UpdateRateInverse_skipped(t) ==
    /\ Running(t, "update_rate", "inverse")
    /\ Leave(t, NoError, NoArg)
    /\ lock' = Free
    /\ UNCHANGED <<rates, writer, historical_rates, calls>>

\* the inverse stored under the key of the forward rate
UpdateRateInverse_same_key(t) ==
    /\ Running(t, "update_rate", "inverse")
    /\ LET f == Top(t)
       IN  /\ rates' = Put(rates, <<f.from, f.to>>, FInv(f.rate))
           /\ writer' = Put(writer, <<f.from, f.to>>, Result(f, NoError, t))
           /\ Leave(t, NoError, NoArg)
    /\ lock' = Free
    /\ UNCHANGED <<historical_rates, calls>>

\* self._rates[(to_currency, from_currency)] = 1.0 / rate, and the lock is released
UpdateRateInverse(t) ==
    /\ Running(t, "update_rate", "inverse")
    /\ LET f == Top(t)
       IN  /\ rates' = Put(rates, <<f.to, f.from>>, FInv(f.rate))
           /\ writer' = Put(writer, <<f.to, f.from>>, Result(f, NoError, t))
           /\ Leave(t, NoError, NoArg)
    /\ lock' = Free
    /\ UNCHANGED <<historical_rates, calls>>

\* get_historical_rate, up to the acquisition of the lock
GetHistoricalRateEnter(t) ==
    /\ Running(t, "get_historical_rate", "enter")
    /\ Acquire(t)
    /\ Goto(t, [Top(t) EXCEPT !.pc = "lookup"])
    /\ UNCHANGED <<rates, historical_rates, ret, writer, calls>>

\* a historical lookup that answers from the live table when the date lacks the pair
GetHistoricalRateLookup_live_fallback(t) ==
    /\ Running(t, "get_historical_rate", "lookup")
    /\ LET f == Top(t)
           rate_key == <<f.from, f.to>>
       IN  IF f.date \notin DOMAIN historical_rates
           THEN Leave(t, ValueError, NoArg)
           ELSE IF rate_key \in DOMAIN historical_rates[f.date]
           THEN Leave(t, NoError, historical_rates[f.date][rate_key])
           ELSE IF rate_key \in DOMAIN rates
           THEN Leave(t, NoError, rates[rate_key])
           ELSE Leave(t, CurrencyMismatchError, NoArg)
    /\ lock' = Free
    /\ UNCHANGED <<rates, historical_rates, writer, calls>>

GetHistoricalRateLookup(t) ==
    /\ Running(t, "get_historical_rate", "lookup")
    /\ LET f == Top(t)
           rate_key == <<f.from, f.to>>
       IN  IF f.date \notin DOMAIN historical_rates
           THEN Leave(t, ValueError, NoArg)
           ELSE IF rate_key \notin DOMAIN historical_rates[f.date]
           THEN Leave(t, CurrencyMismatchError, NoArg)
           ELSE Leave(t, NoError, historical_rates[f.date][rate_key])
    /\ lock' = Free
    /\ UNCHANGED <<rates, historical_rates, writer, calls>>

\* store_historical_rate, up to the acquisition of the lock
StoreHistoricalRateEnter(t) ==
    /\ Running(t, "store_historical_rate", "enter")
    /\ IF Top(t).rate.n <= 0
       THEN Leave(t, ValueError, NoArg) /\ UNCHANGED lock
       ELSE Acquire(t) /\ Goto(t, [Top(t) EXCEPT !.pc = "forward"]) /\ UNCHANGED ret
    /\ UNCHANGED <<rates, historical_rates, writer, calls>>

\* the bucket of the date is created if absent and the forward rate stored
StoreHistoricalRateForward(t) ==
    /\ Running(t, "store_historical_rate", "forward")
    /\ LET f == Top(t)
           bucket == IF f.date \in DOMAIN historical_rates
                     THEN historical_rates[f.date] ELSE EmptyDict
       IN  /\ historical_rates' =
                  Put(historical_rates, f.date, Put(bucket, <<f.from, f.to>>, f.rate))
           /\ Goto(t, [f EXCEPT !.pc = "inverse"])
    /\ UNCHANGED <<rates, lock, ret, writer, calls>>

\* a store whose inverse rate goes to the live table
StoreHistoricalRateInverse_live(t) ==
    /\ Running(t, "store_historical_rate", "inverse")
    /\ LET f == Top(t)
       IN  /\ rates' = Put(rates, <<f.to, f.from>>, FInv(f.rate))
           /\ writer' = Put(writer, <<f.to, f.from>>, Result(f, NoError, t))
           /\ Leave(t, NoError, NoArg)
    /\ lock' = Free
    /\ UNCHANGED <<historical_rates, calls>>

\* the inverse rate is stored and the lock released
StoreHistoricalRateInverse(t) ==
    /\ Running(t, "store_historical_rate", "inverse")
    /\ LET f == Top(t)
       IN  /\ historical_rates' =
                  Put(historical_rates, f.date,
                      Put(historical_rates[f.date], <<f.to, f.from>>, FInv(f.rate)))
           /\ Leave(t, NoError, NoArg)
    /\ lock' = Free
    /\ UNCHANGED <<rates, writer, calls>>

-----------------------------------------------------------------------------
(* convert *)

\* rate_date=None
NoDate == "None"

\* the frame of convert(amount, target_currency, rate_date)
ConvertFrame(amount, target_currency, rate_date) ==
    [fn |-> "convert", pc |-> "enter", from |-> amount.currency,
     to |-> target_currency, rate |-> NoArg, date |-> rate_date,
     tmp |-> NoArg, rv |-> NoRv, amount |-> amount]

\* the product without its third decimal place
converted_amount_floor(amount, rate) ==
    LET a == Money_amount(amount)
        t == a.whole * rate.n + (a.mil * rate.n) \div 1000
    IN  Dec(a.neg, t \div rate.d,
            10 * ((((t % rate.d) * 1000 + ((a.mil * rate.n) % 1000)) \div rate.d) \div 10), 0)

\* amount.amount * rate, as str() of the product hands it to Decimal: the
\* exact product cut after its third decimal place, which is what rounding
\* to two places looks at.  The binary product of the two floats is within
\* one unit in the last place of the exact one; for the amounts and rates
\* of ConvertCalls its shortest decimal form rounds as the exact product.
converted_amount(amount, rate) ==
    LET a == Money_amount(amount)
        t == a.whole * rate.n + (a.mil * rate.n) \div 1000
    IN  Dec(a.neg, t \div rate.d,
            ((t % rate.d) * 1000 + ((a.mil * rate.n) % 1000)) \div rate.d, 0)

\* convert that resolves a rate also when the currencies are the same
ConvertEnter_always_resolves(t) ==
    /\ Running(t, "convert", "enter")
    /\ LET f == Top(t)
       IN  /\ IF f.date # NoDate
              THEN Push(t, [f EXCEPT !.pc = "rate"],
                        Frame("get_historical_rate", f.amount.currency, f.to, NoArg, f.date))
              ELSE Push(t, [f EXCEPT !.pc = "rate"],
                        Frame("get_rate", f.amount.currency, f.to, NoArg, NoArg))
           /\ UNCHANGED ret
    /\ UNCHANGED <<rates, historical_rates, lock, writer, calls>>

\* convert: the same currency returns the amount itself, else the rate is
\* asked of get_historical_rate (with a date) or of get_rate
ConvertEnter(t) ==
    /\ Running(t, "convert", "enter")
    /\ LET f == Top(t)
       IN  IF f.amount.currency = f.to
           THEN Leave(t, NoError, f.amount)
           ELSE /\ IF f.date # NoDate
                   THEN Push(t, [f EXCEPT !.pc = "rate"],
                             Frame("get_historical_rate", f.amount.currency, f.to, NoArg, f.date))
                   ELSE Push(t, [f EXCEPT !.pc = "rate"],
                             Frame("get_rate", f.amount.currency, f.to, NoArg, NoArg))
                /\ UNCHANGED ret
    /\ UNCHANGED <<rates, historical_rates, lock, writer, calls>>

\* convert with the construction of the result inside its try block
ConvertFinish_wrapping(t) ==
    /\ Running(t, "convert", "rate")
    /\ LET f == Top(t)
       IN  IF f.rv.err \in {CurrencyMismatchError, ValueError}
           THEN Leave(t, CurrencyMismatchError, NoMoney)
           ELSE IF f.rv.err # NoError
           THEN Leave(t, f.rv.err, NoMoney)
           ELSE LET made == Money_init(converted_amount(f.amount, f.rv.val), f.to)
                IN  IF made.err = NoError THEN Leave(t, made.err, made.val)
                    ELSE Leave(t, CurrencyMismatchError, NoMoney)
    /\ UNCHANGED <<rates, historical_rates, lock, writer, calls>>

\* convert: a CurrencyMismatchError or ValueError of the lookup is raised
\* again as CurrencyMismatchError, else Money(amount.amount * rate, target_currency)
ConvertFinish(t) ==
    /\ Running(t, "convert", "rate")
    /\ LET f == Top(t)
       IN  IF f.rv.err \in {CurrencyMismatchError, ValueError}
           THEN Leave(t, CurrencyMismatchError, NoMoney)
           ELSE IF f.rv.err # NoError
           THEN Leave(t, f.rv.err, NoMoney)
           ELSE LET made == Money_init(converted_amount(f.amount, f.rv.val), f.to)
                IN  Leave(t, made.err, made.val)
    /\ UNCHANGED <<rates, historical_rates, lock, writer, calls>>

\* convert(amount, target_currency) run from call to return on a manager
\* that no call is using and whose table has the pair: the steps
\* ConvertEnter, GetRateEnter, GetRateLookup and ConvertFinish in one
convert_direct(amount, target_currency) ==
    IF amount.currency = target_currency THEN Return(amount)
    ELSE Money_init(converted_amount(amount, rates[<<amount.currency, target_currency>>]),
                    target_currency)

-----------------------------------------------------------------------------
(* The caller of Money: inputs and operations *)

\* largest numerator of a scalar factor
MaxFactor == 3

\* amounts with up to three decimal places: rounding ties, carries and the
\* amounts around MAX_VALUE and MIN_VALUE cents
SmallInputs == {<<0, 0>>, <<0, 5>>, <<0, 50>>, <<0, 995>>, <<100, 124>>, <<100, 125>>}
BoundaryInputs ==
    {<<21474836, m>> : m \in {470, 474, 475, 480, 484, 485, 490}}

\* amounts beyond the range: 1e25 and 1e26
HugeInputs == {Dec(FALSE, 1, 0, 25), Dec(FALSE, 1, 0, 26), Dec(TRUE, 1, 0, 26)}

AmountInputs ==
    {Dec(neg, a[1], a[2], 0) : neg \in BOOLEAN, a \in SmallInputs \cup BoundaryInputs}
        \cup HugeInputs \cup {NotNumeric}

MoneyCurrencies == {"USD", "EUR"}

\* the scalars: the ints and the odd halves up to MaxFactor
Factors ==
    {[n |-> n, d |-> 1] : n \in (-MaxFactor)..MaxFactor}
        \cup {[n |-> n, d |-> 2] : n \in {k \in (-MaxFactor)..MaxFactor : k % 2 = 1}}

Op(op, a, c, f, self, other, res) ==
    [op |-> op, a |-> a, c |-> c, f |-> f, self |-> self, other |-> other, res |-> res]

MoneyInit ==
    /\ x = NoMoney
    /\ y = NoMoney
    /\ out = Op("none", NoArg, NoArg, NoArg, NoMoney, NoMoney, Raise(NoError))

\* m = Money(a, c), kept by the caller as x or as y when it succeeds
Construct(a, c, toX) ==
    LET r == Money_init(a, c)
    IN  /\ IF toX THEN x = NoMoney ELSE y = NoMoney
        /\ out' = Op("Construct", a, c, NoArg, NoMoney, NoMoney, r)
        /\ x' = IF r.err = NoError /\ toX THEN r.val ELSE x
        /\ y' = IF r.err = NoError /\ ~toX THEN r.val ELSE y

\* an addition that updates its left operand in place and returns it
Add_in_place ==
    /\ x # NoMoney /\ y # NoMoney
    /\ out' = Op("Add", NoArg, NoArg, NoArg, x, y, Money_add(x, y))
    /\ x' = IF Money_add(x, y).err = NoError THEN Money_add(x, y).val ELSE x
    /\ UNCHANGED y

Add ==
    /\ x # NoMoney /\ y # NoMoney
    /\ out' = Op("Add", NoArg, NoArg, NoArg, x, y, Money_add(x, y))
    /\ UNCHANGED <<x, y>>

Subtract ==
    /\ x # NoMoney /\ y # NoMoney
    /\ out' = Op("Subtract", NoArg, NoArg, NoArg, x, y, Money_sub(x, y))
    /\ UNCHANGED <<x, y>>

Multiply(f) ==
    /\ x # NoMoney
    /\ out' = Op("Multiply", NoArg, NoArg, f, x, NoMoney, Money_mul(x, f))
    /\ UNCHANGED <<x, y>>

Divide(f) ==
    /\ x # NoMoney
    /\ out' = Op("Divide", NoArg, NoArg, f, x, NoMoney, Money_truediv(x, f))
    /\ UNCHANGED <<x, y>>

\* (x + y) - y: the sum that Add just returned, minus y
SubtractFromSum ==
    /\ out.op = "Add" /\ out.res.err = NoError
    /\ out' = Op("SubtractFromSum", NoArg, NoArg, NoArg, out.res.val, y,
                 Money_sub(out.res.val, y))
    /\ UNCHANGED <<x, y>>

\* (x - y) + y: the difference that Subtract just returned, plus y
AddToDifference ==
    /\ out.op = "Subtract" /\ out.res.err = NoError
    /\ out' = Op("AddToDifference", NoArg, NoArg, NoArg, out.res.val, y,
                 Money_add(out.res.val, y))
    /\ UNCHANGED <<x, y>>

\* convert(x, target) on the manager at rest
Convert(target) ==
    /\ x # NoMoney
    /\ lock = Free /\ \A t \in Threads : stack[t] = <<>>
    /\ x.currency # target => <<x.currency, target>> \in DOMAIN rates
    /\ out' = Op("Convert", NoArg, target, NoArg, x, NoMoney, convert_direct(x, target))
    /\ UNCHANGED <<x, y>>

\* the names under which the caller holds Money objects
Refs == {"x", "y", "out"}

\* the Money that a name refers to
Deref(r) == CASE r = "x" -> x [] r = "y" -> y [] r = "out" -> out.res.val

\* the object that a name refers to: x and y are objects of their own, and
\* so is every result but that of convert to the same currency, which is
\* the object x itself
ObjectOf(r) ==
    IF r = "out" /\ out.op = "Convert" /\ out.self.currency = out.c THEN "x" ELSE r

\* self == other: Money defines no __eq__, so the comparison is that of
\* object, which holds for one and the same object only
Money_eq(self, other, self_object, other_object) == self_object = other_object

\* a == b for two Money objects that the caller holds
Equal(a, b) ==
    /\ a = "out" => out.op \in {"SubtractFromSum", "AddToDifference", "Convert"}
    /\ Deref(a) # NoMoney /\ Deref(b) # NoMoney
    /\ out' = Op("Equal", <<a, b>>, NoArg, NoArg, Deref(a), Deref(b),
                 [err |-> NoError,
                  val |-> [eq |-> Money_eq(Deref(a), Deref(b), ObjectOf(a), ObjectOf(b))]])
    /\ UNCHANGED <<x, y>>

MoneyNext ==
    \/ \E a \in AmountInputs, c \in MoneyCurrencies, toX \in BOOLEAN :
            Construct(a, c, toX) /\ UNCHANGED <<mgrVars, optVars>>
    \/ Add /\ UNCHANGED <<mgrVars, optVars>>
    \/ Subtract /\ UNCHANGED <<mgrVars, optVars>>
    \/ \E f \in Factors : Multiply(f) /\ UNCHANGED <<mgrVars, optVars>>
    \/ \E f \in Factors : Divide(f) /\ UNCHANGED <<mgrVars, optVars>>
    \/ SubtractFromSum /\ UNCHANGED <<mgrVars, optVars>>
    \/ AddToDifference /\ UNCHANGED <<mgrVars, optVars>>
    \/ \E target \in MoneyCurrencies : Convert(target) /\ UNCHANGED <<mgrVars, optVars>>
    \/ \E a \in Refs, b \in {"x", "y"} : Equal(a, b) /\ UNCHANGED <<mgrVars, optVars>>

-----------------------------------------------------------------------------
(* The callers of the manager: the calls the threads make *)

GetRateCalls ==
    {<<"USD", "EUR">>, <<"EUR", "USD">>, <<"USD", "USD">>,
     <<"USD", "INVALID">>, <<"INVALID", "EUR">>}

UpdatePairs == {<<"USD", "EUR">>, <<"USD", "USD">>, <<"INVALID", "USD">>}
RateInputs == {R(9, 10), R(2, 1), R(0, 1)}

Dates == {"D1", "D2"}
StorePairs == {<<"USD", "EUR">>}
StoreRates == {R(95, 100), R(0, 1)}
StoreDates == {"D1"}
HistoricalCalls == {<<"USD", "EUR">>, <<"EUR", "USD">>, <<"USD", "GBP">>}

CallGetRate(t) ==
    \E k \in GetRateCalls : Call(t, Frame("get_rate", k[1], k[2], NoArg, NoArg))

CallUpdateRate(t) ==
    \E k \in UpdatePairs, r \in RateInputs :
        Call(t, Frame("update_rate", k[1], k[2], r, NoArg))

CallGetHistoricalRate(t) ==
    \E k \in HistoricalCalls, d \in Dates :
        Call(t, Frame("get_historical_rate", k[1], k[2], NoArg, d))

CallStoreHistoricalRate(t) ==
    \E k \in StorePairs, r \in StoreRates, d \in StoreDates :
        Call(t, Frame("store_historical_rate", k[1], k[2], r, d))

\* a step of a call in progress on thread t
ThreadStep(t) ==
    \/ GetRateEnter(t) /\ UNCHANGED <<moneyVars, optVars>>
    \/ GetRateLookup(t) /\ UNCHANGED <<moneyVars, optVars>>
    \/ GetRateDerive(t) /\ UNCHANGED <<moneyVars, optVars>>
    \/ UpdateRateEnter(t) /\ UNCHANGED <<moneyVars, optVars>>
    \/ UpdateRateForward(t) /\ UNCHANGED <<moneyVars, optVars>>
    \/ UpdateRateInverse(t) /\ UNCHANGED <<moneyVars, optVars>>
    \/ GetHistoricalRateEnter(t) /\ UNCHANGED <<moneyVars, optVars>>
    \/ GetHistoricalRateLookup(t) /\ UNCHANGED <<moneyVars, optVars>>
    \/ StoreHistoricalRateEnter(t) /\ UNCHANGED <<moneyVars, optVars>>
    \/ StoreHistoricalRateForward(t) /\ UNCHANGED <<moneyVars, optVars>>
    \/ StoreHistoricalRateInverse(t) /\ UNCHANGED <<moneyVars, optVars>>

MgrNext ==
    \E t \in Threads :
        \/ CallGetRate(t) /\ UNCHANGED <<moneyVars, optVars>>
        \/ CallUpdateRate(t) /\ UNCHANGED <<moneyVars, optVars>>
        \/ CallGetHistoricalRate(t) /\ UNCHANGED <<moneyVars, optVars>>
        \/ CallStoreHistoricalRate(t) /\ UNCHANGED <<moneyVars, optVars>>
        \/ ThreadStep(t)

-----------------------------------------------------------------------------
(* One caller that converts Money while it updates and stores rates *)

Caller == 1

ConvertCalls ==
    {<<Money(10000, "USD"), "EUR", NoDate>>,
     <<Money(10, "USD"), "EUR", NoDate>>,
     <<Money(10000, "GBP"), "JPY", NoDate>>,
     <<Money(10000, "USD"), "INVALID", NoDate>>,
     <<Money(MAX_VALUE, "EUR"), "USD", NoDate>>,
     <<Money(10000, "USD"), "USD", NoDate>>,
     <<Money(10000, "USD"), "USD", "D2">>,
     <<Money(10000, "USD"), "EUR", "D1">>,
     <<Money(10000, "USD"), "EUR", "D2">>,
     <<Money(10000, "USD"), "GBP", "D1">>}

ConvertUpdates == {<<"USD", "EUR", R(9, 10)>>, <<"USD", "EUR", R(0, 1)>>}
ConvertStores ==
    {<<"USD", "EUR", R(95, 100), "D1">>, <<"USD", "EUR", R(9, 10), "D2">>,
     <<"USD", "EUR", R(0, 1), "D2">>}

CallConvert(t) ==
    \E c \in ConvertCalls : Call(t, ConvertFrame(c[1], c[2], c[3]))

CallConvertUpdate(t) ==
    \E u \in ConvertUpdates : Call(t, Frame("update_rate", u[1], u[2], u[3], NoArg))

CallConvertStore(t) ==
    \E h \in ConvertStores :
        Call(t, Frame("store_historical_rate", h[1], h[2], h[3], h[4]))

\* a step of a call in progress on thread t, convert included
ConvertStep(t) ==
    \/ ConvertEnter(t) /\ UNCHANGED <<moneyVars, optVars>>
    \/ ConvertFinish(t) /\ UNCHANGED <<moneyVars, optVars>>
    \/ ThreadStep(t)

ConvertNext ==
    \/ CallConvert(Caller) /\ UNCHANGED <<moneyVars, optVars>>
    \/ CallConvertUpdate(Caller) /\ UNCHANGED <<moneyVars, optVars>>
    \/ CallConvertStore(Caller) /\ UNCHANGED <<moneyVars, optVars>>
    \/ ConvertStep(Caller)

-----------------------------------------------------------------------------
(* optimizations.py: the state of the pool, the cache and the metrics *)

\* MoneyPool(): initial_size objects made by __new__, none with an attribute
initial_size == 1000

\* the operation names that are recorded
OperationNames == {"batch_add", "batch_convert", "custom"}

\* the pool is the list of its objects never handed out, fresh of them,
\* followed by the released objects in free: pop() takes the last of free,
\* else the top one of the objects never handed out
OptInit ==
    /\ pool = [fresh |-> initial_size, expanded |-> 1, free |-> <<>>]
    /\ objects = EmptyDict
    /\ refs = <<>>
    /\ live = {}
    /\ cache = EmptyDict
    /\ operation_times = EmptyDict
    /\ operation_counts = EmptyDict
    /\ metrics_lock = Free
    /\ processor_lock = Free
    /\ completed = [o \in OperationNames |-> [recorded |-> 0, succeeded |-> 0, failed |-> 0]]

\* time.perf_counter() differences
Durations == {1, 2}

\* self.operation_times after record_operation(operation, duration)
recorded_times(operation, duration) ==
    Put(operation_times, operation,
        Append(IF operation \in DOMAIN operation_times
               THEN operation_times[operation] ELSE <<>>, duration))

\* int(round(m.amount * 100))
round_cents(m) ==
    LET a == Money_amount(m)
        r == PyRound(WNorm(a.whole * 10, a.mil), 10)
    IN  IF a.neg THEN WNeg(r) ELSE r

-----------------------------------------------------------------------------
(* MoneyPool and OptimizedMoney *)

\* reading an attribute of __slots__ that was never set
AttributeError == "AttributeError"

\* _expand(1000) of acquire
expand_size == 1000

Last(q) == q[Len(q)]

\* self._pool after "if not self._pool: self._expand(1000)"
expanded_pool(p) ==
    IF p.fresh = 0 /\ p.free = <<>>
    THEN [fresh |-> expand_size, expanded |-> p.expanded + 1, free |-> <<>>]
    ELSE p

\* the object acquire() returns: the objects of the pool are numbered from 1
\* in the order _expand made them, and the top one of those never handed
\* out is popped when no released object lies above it
acquire(p) ==
    LET q == expanded_pool(p)
    IN  IF q.free # <<>> THEN Last(q.free)
        ELSE (q.expanded - 1) * expand_size + q.fresh

\* self._pool after acquire()
acquired_pool(p) ==
    LET q == expanded_pool(p)
    IN  IF q.free # <<>> THEN [q EXCEPT !.free = SubSeq(@, 1, Len(@) - 1)]
        ELSE [q EXCEPT !.fresh = @ - 1]

\* the identity of an object made by OptimizedMoney(...): 0, -1, -2, ...
NewObject == -Cardinality({o \in DOMAIN objects : o <= 0})

\* whether the object obj has its _lock attribute
HasLock(obj) == obj \in DOMAIN objects /\ objects[obj].lock

\* the attributes of obj after _amount and _currency are assigned
Assigned(obj, amount, currency) ==
    Put(objects, obj, [amount |-> amount, currency |-> currency, lock |-> HasLock(obj)])

\* number of pool operations of one run
MaxPoolOps == 4

\* OptimizedMoney(amount, currency) with an int amount
OptInputs == {1, 21474836, 21474837} \X {"USD", "EUR"}
PoolMoneys == {Money(100, "USD"), Money(250, "USD")}

\* o = OptimizedMoney(amount, currency)
NewOptimized(amount, currency) ==
    /\ calls < MaxPoolOps /\ calls' = calls + 1
    /\ LET cents == WMul(W(amount), 100)
       IN  IF ~InRange(cents)
           THEN /\ out' = Op("OptimizedMoney", amount, currency, NoArg, NoMoney, NoMoney,
                             Raise(MoneyOverflowError))
                /\ UNCHANGED <<objects, refs, live>>
           ELSE /\ objects' = Put(objects, NewObject,
                                  [amount |-> cents, currency |-> currency, lock |-> TRUE])
                /\ refs' = Append(refs, NewObject)
                /\ live' = live \cup {NewObject}
                /\ out' = Op("OptimizedMoney", amount, currency, NoArg, NoMoney, NoMoney,
                             Return(NewObject))
    /\ UNCHANGED <<x, y, rates, historical_rates, lock, stack, ret, writer>>
    /\ UNCHANGED <<pool, cache, operation_times, operation_counts,
                   metrics_lock, processor_lock, completed>>

\* o = OptimizedMoney.from_money(money)
FromMoney(money) ==
    /\ calls < MaxPoolOps /\ calls' = calls + 1
    /\ LET obj == acquire(pool)
       IN  /\ pool' = acquired_pool(pool)
           /\ objects' = Assigned(obj, round_cents(money), money.currency)
           /\ refs' = Append(refs, obj)
           /\ live' = live \cup {obj}
           /\ out' = Op("from_money", money, NoArg, NoArg, NoMoney, NoMoney, Return(obj))
    /\ UNCHANGED <<x, y, rates, historical_rates, lock, stack, ret, writer>>
    /\ UNCHANGED <<cache, operation_times, operation_counts,
                   metrics_lock, processor_lock, completed>>

\* refs[i].to_money()
ToMoney(i) ==
    /\ calls < MaxPoolOps /\ calls' = calls + 1
    /\ LET self == refs[i]
           result == Money_init(CentsToDecimal(objects[self].amount), objects[self].currency)
       IN  /\ out' = Op("to_money", i, NoArg, NoArg, objects[self], NoMoney, result)
           /\ IF result.err = NoError
              THEN /\ pool' = [pool EXCEPT !.free = Append(@, self)]
                   /\ live' = live \ {self}
              ELSE UNCHANGED <<pool, live>>
    /\ UNCHANGED <<x, y, rates, historical_rates, lock, stack, ret, writer>>
    /\ UNCHANGED <<objects, refs, cache, operation_times, operation_counts,
                   metrics_lock, processor_lock, completed>>

\* o = refs[i] + refs[j]
OptimizedAdd(i, j) ==
    /\ calls < MaxPoolOps /\ calls' = calls + 1
    /\ LET self == refs[i]
           other == refs[j]
           result == WAdd(objects[self].amount, objects[other].amount)
           failed(e) ==
               /\ out' = Op("__add__", <<i, j>>, NoArg, NoArg, objects[self], objects[other],
                            Raise(e))
               /\ UNCHANGED <<pool, objects, refs, live>>
       IN  IF ~HasLock(self) THEN failed(AttributeError)
           ELSE IF objects[self].currency # objects[other].currency THEN failed(ValueError)
           ELSE IF ~InRange(result) THEN failed(MoneyOverflowError)
           ELSE LET new_obj == acquire(pool)
                IN  /\ pool' = acquired_pool(pool)
                    /\ objects' = Assigned(new_obj, result, objects[self].currency)
                    /\ refs' = Append(refs, new_obj)
                    /\ live' = live \cup {new_obj}
                    /\ out' = Op("__add__", <<i, j>>, NoArg, NoArg, objects[self],
                                 objects[other], Return(new_obj))
    /\ UNCHANGED <<x, y, rates, historical_rates, lock, stack, ret, writer>>
    /\ UNCHANGED <<cache, operation_times, operation_counts,
                   metrics_lock, processor_lock, completed>>

PoolNext ==
    \/ \E c \in OptInputs : NewOptimized(c[1], c[2])
    \/ \E money \in PoolMoneys : FromMoney(money)
    \/ \E i \in 1..Len(refs) : ToMoney(i)
    \/ \E i, j \in 1..Len(refs) : OptimizedAdd(i, j)

-----------------------------------------------------------------------------
(* batch_add and batch_operation(..., "sum") *)

\* sum(amounts_array), a Python int
RECURSIVE vectorized_add(_)
vectorized_add(amounts) ==
    IF amounts = <<>> THEN W(0)
    ELSE WAdd(round_cents(Head(amounts)), vectorized_add(Tail(amounts)))

\* all(m.currency == currency for m in amounts)
SameCurrency(amounts) == \A i \in 1..Len(amounts) : amounts[i].currency = amounts[1].currency

\* what BatchProcessor.batch_add(amounts) returns or raises
batch_add_result(amounts) ==
    IF amounts = <<>> THEN Raise(ValueError)
    ELSE IF ~SameCurrency(amounts) THEN Raise(ValueError)
    ELSE LET result == vectorized_add(amounts)
         IN  IF ~InRange(result) THEN Raise(MoneyOverflowError)
             ELSE Money_init(CentsToDecimal(result), amounts[1].currency)

\* result += amount for each amount of rest, stopping at the first that raises
RECURSIVE sum_from(_, _)
sum_from(result, rest) ==
    IF rest = <<>> \/ result.err # NoError THEN result
    ELSE sum_from(Money_add(result.val, Head(rest)), Tail(rest))

\* what AdvancedOperations.batch_operation(amounts, "sum") returns or raises
batch_operation_sum(amounts) ==
    IF amounts = <<>> THEN Raise(ValueError)
    ELSE IF ~SameCurrency(amounts) THEN Raise(ValueError)
    ELSE sum_from(Return(amounts[1]), Tail(amounts))

\* longest list of a batch
MaxBatch == 3

BatchMoneys ==
    {Money(MAX_VALUE, "USD"), Money(1, "USD"), Money(-1, "USD"), Money(1, "EUR")}

BatchLists == UNION {[1..n -> BatchMoneys] : n \in 0..MaxBatch}

\* processor.batch_add(amounts) from call to return, on a processor at rest
BatchAdd(amounts) ==
    /\ metrics_lock = Free /\ processor_lock = Free
    /\ \A t \in Threads : stack[t] = <<>>
    /\ calls < MaxCalls /\ calls' = calls + 1
    /\ LET r == batch_add_result(amounts)
       IN  /\ out' = Op("batch_add", amounts, NoArg, NoArg, NoMoney, NoMoney, r)
           /\ IF r.err = NoError
              THEN \E duration \in Durations :
                      /\ operation_times' = recorded_times("batch_add", duration)
                      /\ operation_counts' =
                            Put(operation_counts, "batch_add",
                                1 + IF "batch_add" \in DOMAIN operation_times
                                    THEN operation_counts["batch_add"] ELSE 0)
                      /\ completed' = [completed EXCEPT !["batch_add"].recorded = @ + 1,
                                                        !["batch_add"].succeeded = @ + 1]
              ELSE /\ completed' = [completed EXCEPT !["batch_add"].failed = @ + 1]
                   /\ UNCHANGED <<operation_times, operation_counts>>
    /\ UNCHANGED <<x, y, rates, historical_rates, lock, stack, ret, writer>>
    /\ UNCHANGED <<pool, objects, refs, live, cache, metrics_lock, processor_lock>>

\* AdvancedOperations.batch_operation(amounts, "sum")
BatchOperation(amounts) ==
    /\ calls < MaxCalls /\ calls' = calls + 1
    /\ out' = Op("batch_operation", amounts, NoArg, NoArg, NoMoney, NoMoney,
                 batch_operation_sum(amounts))
    /\ UNCHANGED <<x, y, rates, historical_rates, lock, stack, ret, writer, optVars>>

BatchNext ==
    \/ \E amounts \in BatchLists : BatchAdd(amounts)
    \/ \E amounts \in BatchLists : BatchOperation(amounts)

-----------------------------------------------------------------------------
(* PerformanceMetrics, cached_exchange_rate and BatchProcessor, step by step *)

\* the frame of record_operation(operation, duration)
RecordFrame(operation, duration) ==
    [fn |-> "record_operation", pc |-> "enter", from |-> NoArg, to |-> NoArg,
     rate |-> NoArg, date |-> NoDate, tmp |-> NoArg, rv |-> NoRv,
     operation |-> operation, duration |-> duration]

\* the frame of batch_add(amounts) and of batch_convert(amounts, target_currency)
BatchFrame(fn, amounts, target_currency) ==
    [fn |-> fn, pc |-> "enter", from |-> NoArg, to |-> target_currency,
     rate |-> NoArg, date |-> NoDate, tmp |-> EmptyDict, rv |-> NoRv,
     amount |-> amounts]

\* a batch call of the processor returns val or raises err
BatchLeave(t, err, val) ==
    /\ Leave(t, err, val)
    /\ completed' = [completed EXCEPT
                        ![Top(t).fn][IF err = NoError THEN "succeeded" ELSE "failed"] = @ + 1]

\* record_operation that does not take the lock of the metrics
RecordOperationEnter_unlocked(t) ==
    /\ Running(t, "record_operation", "enter")
    /\ Goto(t, [Top(t) EXCEPT !.pc = "append"])
    /\ UNCHANGED <<x, y, out, rates, historical_rates, lock, writer, calls>>
    /\ UNCHANGED <<ret, pool, objects, refs, live, cache, operation_times, operation_counts,
                   metrics_lock, processor_lock, completed>>

\* record_operation: with self._lock
RecordOperationEnter(t) ==
    /\ Running(t, "record_operation", "enter")
    /\ metrics_lock = Free /\ metrics_lock' = t
    /\ Goto(t, [Top(t) EXCEPT !.pc = "append"])
    /\ UNCHANGED <<x, y, out, rates, historical_rates, lock, writer, calls>>
    /\ UNCHANGED <<ret, pool, objects, refs, live, cache, operation_times, operation_counts,
                   processor_lock, completed>>

\* record_operation: the entries of a new name, the duration appended, and
\* the count read for "+= 1"
RecordOperationAppend(t) ==
    /\ Running(t, "record_operation", "append")
    /\ LET f == Top(t)
           counts == IF f.operation \in DOMAIN operation_times THEN operation_counts
                     ELSE Put(operation_counts, f.operation, 0)
       IN  /\ operation_times' = recorded_times(f.operation, f.duration)
           /\ operation_counts' = counts
           /\ Goto(t, [f EXCEPT !.pc = "count", !.tmp = counts[f.operation]])
    /\ UNCHANGED <<x, y, out, rates, historical_rates, lock, writer, calls>>
    /\ UNCHANGED <<ret, pool, objects, refs, live, cache, metrics_lock, processor_lock, completed>>

\* record_operation: the count stored, the lock released on return
RecordOperationCount(t) ==
    /\ Running(t, "record_operation", "count")
    /\ LET f == Top(t)
       IN  /\ operation_counts' = Put(operation_counts, f.operation, f.tmp + 1)
           /\ completed' = [completed EXCEPT ![f.operation].recorded = @ + 1]
           /\ metrics_lock' = Free
           /\ Leave(t, NoError, NoArg)
    /\ UNCHANGED <<x, y, out, rates, historical_rates, lock, writer, calls>>
    /\ UNCHANGED <<pool, objects, refs, live, cache, operation_times, processor_lock>>

\* cached_exchange_rate: the cached value of the pair, else the call of
\* the function, which asks get_rate when the currencies differ
CachedExchangeRateEnter(t) ==
    /\ Running(t, "cached_exchange_rate", "enter")
    /\ LET f == Top(t)
           key == <<f.from, f.to>>
       IN  IF key \in DOMAIN cache
           THEN Leave(t, NoError, cache[key]) /\ UNCHANGED cache
           ELSE IF f.from = f.to
           THEN Leave(t, NoError, One) /\ cache' = Put(cache, key, One)
           ELSE /\ Push(t, [f EXCEPT !.pc = "miss"],
                        Frame("get_rate", f.from, f.to, NoArg, NoArg))
                /\ UNCHANGED <<ret, cache>>
    /\ UNCHANGED <<x, y, out, rates, historical_rates, lock, writer, calls>>
    /\ UNCHANGED <<pool, objects, refs, live, operation_times, operation_counts,
                   metrics_lock, processor_lock, completed>>

\* cached_exchange_rate: the value get_rate returned is cached; what it
\* raised is not
CachedExchangeRateStore(t) ==
    /\ Running(t, "cached_exchange_rate", "miss")
    /\ LET f == Top(t)
       IN  IF f.rv.err = NoError
           THEN /\ cache' = Put(cache, <<f.from, f.to>>, f.rv.val)
                /\ Leave(t, NoError, f.rv.val)
           ELSE Leave(t, f.rv.err, NoArg) /\ UNCHANGED cache
    /\ UNCHANGED <<x, y, out, rates, historical_rates, lock, writer, calls>>
    /\ UNCHANGED <<pool, objects, refs, live, operation_times, operation_counts,
                   metrics_lock, processor_lock, completed>>

\* batch_add and batch_convert: an empty batch raises, else with self._lock
BatchEnter(t) ==
    /\ stack[t] # <<>> /\ Top(t).fn \in {"batch_add", "batch_convert"}
    /\ Top(t).pc = "enter"
    /\ IF Top(t).amount = <<>>
       THEN BatchLeave(t, ValueError, NoMoney) /\ UNCHANGED processor_lock
       ELSE /\ processor_lock = Free /\ processor_lock' = t
            /\ Goto(t, [Top(t) EXCEPT !.pc = "locked"])
            /\ UNCHANGED <<ret, completed>>
    /\ UNCHANGED <<x, y, out, rates, historical_rates, lock, writer, calls>>
    /\ UNCHANGED <<pool, objects, refs, live, cache, operation_times, operation_counts, metrics_lock>>

\* batch_add: the sum and its checks, then the call of record_operation
BatchAddSum(t) ==
    /\ Running(t, "batch_add", "locked")
    /\ LET f == Top(t)
           r == batch_add_result(f.amount)
       IN  IF r.err # NoError
           THEN BatchLeave(t, r.err, NoMoney) /\ processor_lock' = Free
           ELSE /\ \E duration \in Durations :
                       Push(t, [f EXCEPT !.pc = "recorded"],
                            RecordFrame("batch_add", duration))
                /\ UNCHANGED <<ret, processor_lock, completed>>
    /\ UNCHANGED <<x, y, out, rates, historical_rates, lock, writer, calls>>
    /\ UNCHANGED <<pool, objects, refs, live, cache, operation_times, operation_counts, metrics_lock>>

\* batch_add: return Money(result/100, currency), the lock released
BatchAddFinish(t) ==
    /\ Running(t, "batch_add", "recorded")
    /\ LET r == batch_add_result(Top(t).amount)
       IN  BatchLeave(t, r.err, r.val)
    /\ processor_lock' = Free
    /\ UNCHANGED <<x, y, out, rates, historical_rates, lock, writer, calls>>
    /\ UNCHANGED <<pool, objects, refs, live, cache, operation_times, operation_counts, metrics_lock>>

\* batch_convert: the rate of the next source currency is asked of
\* cached_exchange_rate, in the order the set yields them
BatchConvertRates(t) ==
    /\ Running(t, "batch_convert", "locked")
    /\ LET f == Top(t)
       IN  \E curr \in {f.amount[i].currency : i \in 1..Len(f.amount)} \ DOMAIN f.tmp :
              Push(t, [f EXCEPT !.pc = "rate", !.from = curr],
                   Frame("cached_exchange_rate", curr, f.to, NoArg, NoArg))
    /\ UNCHANGED <<x, y, out, rates, historical_rates, lock, writer, calls>>
    /\ UNCHANGED <<ret, pool, objects, refs, live, cache, operation_times, operation_counts,
                   metrics_lock, processor_lock, completed>>

\* batch_convert: the rate is kept, or what the lookup raised leaves the call
BatchConvertRate(t) ==
    /\ Running(t, "batch_convert", "rate")
    /\ LET f == Top(t)
       IN  IF f.rv.err = NoError
           THEN /\ Goto(t, [f EXCEPT !.pc = "locked", !.from = NoArg, !.rv = NoRv,
                                     !.tmp = Put(f.tmp, f.from, f.rv.val)])
                /\ UNCHANGED <<ret, processor_lock, completed>>
           ELSE BatchLeave(t, f.rv.err, NoMoney) /\ processor_lock' = Free
    /\ UNCHANGED <<x, y, out, rates, historical_rates, lock, writer, calls>>
    /\ UNCHANGED <<pool, objects, refs, live, cache, operation_times, operation_counts, metrics_lock>>

\* [Money(m.amount * rates[m.currency], target_currency) for m in amounts],
\* or what the first Money that fails raises
converted_batch(amounts, batch_rates, target_currency) ==
    LET made == [i \in 1..Len(amounts) |->
                    Money_init(converted_amount(amounts[i], batch_rates[amounts[i].currency]),
                               target_currency)]
        failed == {i \in 1..Len(amounts) : made[i].err # NoError}
    IN  IF failed # {}
        THEN Raise(made[CHOOSE i \in failed : \A j \in failed : i <= j].err)
        ELSE Return([i \in 1..Len(amounts) |-> made[i].val])

\* batch_convert: the conversions, then the call of record_operation
BatchConvertResults(t) ==
    /\ Running(t, "batch_convert", "locked")
    /\ LET f == Top(t)
           r == converted_batch(f.amount, f.tmp, f.to)
       IN  /\ \A i \in 1..Len(f.amount) : f.amount[i].currency \in DOMAIN f.tmp
           /\ IF r.err # NoError
              THEN BatchLeave(t, r.err, NoMoney) /\ processor_lock' = Free
              ELSE /\ \E duration \in Durations :
                          Push(t, [f EXCEPT !.pc = "recorded"],
                               RecordFrame("batch_convert", duration))
                   /\ UNCHANGED <<ret, processor_lock, completed>>
    /\ UNCHANGED <<x, y, out, rates, historical_rates, lock, writer, calls>>
    /\ UNCHANGED <<pool, objects, refs, live, cache, operation_times, operation_counts, metrics_lock>>

\* batch_convert: return results, the lock released
BatchConvertFinish(t) ==
    /\ Running(t, "batch_convert", "recorded")
    /\ LET f == Top(t)
       IN  BatchLeave(t, NoError, converted_batch(f.amount, f.tmp, f.to).val)
    /\ processor_lock' = Free
    /\ UNCHANGED <<x, y, out, rates, historical_rates, lock, writer, calls>>
    /\ UNCHANGED <<pool, objects, refs, live, cache, operation_times, operation_counts, metrics_lock>>

-----------------------------------------------------------------------------
(* The callers of the metrics, the cache and the processor *)

RecordCalls == {<<"custom", 1>>, <<"custom", 2>>}

BatchAddCalls ==
    {<<>>,
     <<Money(100, "USD"), Money(250, "USD")>>,
     <<Money(100, "USD"), Money(100, "EUR")>>,
     <<Money(MAX_VALUE, "USD"), Money(1, "USD")>>}

BatchConvertCalls ==
    {<< <<>>, "EUR" >>,
     << <<Money(10000, "USD"), Money(10000, "GBP")>>, "EUR" >>,
     << <<Money(MAX_VALUE, "EUR")>>, "USD" >>}

CachedCalls == {<<"USD", "EUR">>, <<"EUR", "EUR">>}

\* threads that record operations and run batches on one processor
MetricsNext ==
    \E t \in Threads :
        \/ /\ \E c \in RecordCalls : Call(t, RecordFrame(c[1], c[2]))
           /\ UNCHANGED <<moneyVars, optVars>>
        \/ /\ \E amounts \in BatchAddCalls : Call(t, BatchFrame("batch_add", amounts, NoArg))
           /\ UNCHANGED <<moneyVars, optVars>>
        \/ /\ \E c \in BatchConvertCalls : Call(t, BatchFrame("batch_convert", c[1], c[2]))
           /\ UNCHANGED <<moneyVars, optVars>>
        \/ RecordOperationEnter(t)
        \/ RecordOperationAppend(t)
        \/ RecordOperationCount(t)
        \/ CachedExchangeRateEnter(t)
        \/ CachedExchangeRateStore(t)
        \/ GetRateEnter(t) /\ UNCHANGED <<moneyVars, optVars>>
        \/ GetRateLookup(t) /\ UNCHANGED <<moneyVars, optVars>>
        \/ BatchEnter(t)
        \/ BatchAddSum(t)
        \/ BatchAddFinish(t)
        \/ BatchConvertRates(t)
        \/ BatchConvertRate(t)
        \/ BatchConvertResults(t)
        \/ BatchConvertFinish(t)

\* one caller that updates rates between cached lookups and batch conversions
CacheNext ==
    \/ CallConvertUpdate(Caller) /\ UNCHANGED <<moneyVars, optVars>>
    \/ /\ \E k \in CachedCalls :
             Call(Caller, Frame("cached_exchange_rate", k[1], k[2], NoArg, NoArg))
       /\ UNCHANGED <<moneyVars, optVars>>
    \/ /\ \E c \in BatchConvertCalls :
             Call(Caller, BatchFrame("batch_convert", c[1], c[2]))
       /\ UNCHANGED <<moneyVars, optVars>>
    \/ UpdateRateEnter(Caller) /\ UNCHANGED <<moneyVars, optVars>>
    \/ UpdateRateForward(Caller) /\ UNCHANGED <<moneyVars, optVars>>
    \/ UpdateRateInverse(Caller) /\ UNCHANGED <<moneyVars, optVars>>
    \/ CachedExchangeRateEnter(Caller)
    \/ CachedExchangeRateStore(Caller)
    \/ GetRateEnter(Caller) /\ UNCHANGED <<moneyVars, optVars>>
    \/ GetRateLookup(Caller) /\ UNCHANGED <<moneyVars, optVars>>
    \/ BatchEnter(Caller)
    \/ BatchConvertRates(Caller)
    \/ BatchConvertRate(Caller)
    \/ BatchConvertResults(Caller)
    \/ BatchConvertFinish(Caller)
    \/ RecordOperationEnter(Caller)
    \/ RecordOperationAppend(Caller)
    \/ RecordOperationCount(Caller)

-----------------------------------------------------------------------------
(* Specifications *)

\* the manager under concurrent callers
Init == MoneyInit /\ MgrInit /\ OptInit
Next == MgrNext
Spec == Init /\ [][Next]_vars

\* the same, with every thread that can take a step eventually taking one:
\* a Python thread that is not blocked on the lock keeps running
FairSpec == Spec /\ \A t \in Threads : WF_vars(ThreadStep(t))

\* Money values and their arithmetic, on one caller
MoneySpec == Init /\ [][MoneyNext]_vars

\* conversions, rate updates and historical stores, on one caller
ConvertSpec == Init /\ [][ConvertNext]_vars

\* the same, the caller's thread running whenever it is not blocked
FairConvertSpec == ConvertSpec /\ WF_vars(ConvertStep(Caller))

\* the two sums of a list of Money, on one caller
BatchSpec == Init /\ [][BatchNext]_vars

\* one caller of the pooled values
PoolSpec == Init /\ [][PoolNext]_vars

\* the metrics and the processor under concurrent callers
MetricsSpec == Init /\ [][MetricsNext]_vars

\* the cache of exchange rates while the rates are updated, on one caller
CacheSpec == Init /\ [][CacheNext]_vars

-----------------------------------------------------------------------------
(* Properties of Money (checked under MoneySpec) *)

Numeric(a) == a # NotNumeric
Plain(a) == Numeric(a) /\ a.e10 = 0
Ok(r) == r.err = NoError

\* the exact result of the last operation, as a wide integer
Exact(o) ==
    CASE o.op = "Construct" -> ToCents(QuantizeHalfUp(o.a))
      [] o.op = "Add" -> WAdd(W(o.self.amount), W(o.other.amount))
      [] o.op = "Subtract" -> WSub(W(o.self.amount), W(o.other.amount))
      [] o.op = "Multiply" -> PyRound(WMul(W(o.self.amount), o.f.n), o.f.d)
      [] o.op = "Divide" ->
            PyRound(WMul(W(o.self.amount), IF o.f.n < 0 THEN -o.f.d ELSE o.f.d), Abs(o.f.n))

\* the last operation has an exact result
HasExact(o) ==
    CASE o.op = "Construct" -> Numeric(o.a)
      [] o.op \in {"Add", "Subtract"} -> o.self.currency = o.other.currency
      [] o.op = "Multiply" -> TRUE
      [] o.op = "Divide" -> o.f.n # 0
      [] OTHER -> FALSE

\* C1: a Money produced by Construct, Add, Subtract, Multiply or Divide has its
\* minor units in [MIN_VALUE, MAX_VALUE], and an operation whose exact result
\* is outside that range fails with MoneyOverflowError.
C1_RangeOrOverflow ==
    HasExact(out) =>
        /\ Ok(out.res) => InRange(W(out.res.val.amount)) /\ InRange(Exact(out))
        /\ ~InRange(Exact(out)) => out.res.err = MoneyOverflowError

\* C2: Add or Subtract of two Money values of different currencies fails with
\* CurrencyMismatchError and produces no Money.
C2_MismatchKind ==
    (out.op \in {"Add", "Subtract"} /\ out.self.currency # out.other.currency) =>
        out.res.err = CurrencyMismatchError /\ out.res.val = NoMoney

\* the magnitude of the minor units of m, as a wide integer
Magnitude(m) == IF m.amount < 0 THEN WNeg(W(m.amount)) ELSE W(m.amount)

MaxWhole == MAX_VALUE \div 100

\* C3: Construct of an amount with up to three decimal places stores the
\* minor units nearest to the amount, a tie going away from zero, with the
\* sign of the amount, and Amount() is those minor units divided by 100.
C3_RoundHalfAway ==
    (out.op = "Construct" /\ Plain(out.a)) =>
        /\ out.a.whole < MaxWhole => Ok(out.res)
        /\ Ok(out.res) =>
             LET m == out.res.val
                 mag == Magnitude(m)
                 diff == (mag.hi - out.a.whole) * 1000 + mag.lo * 10 - out.a.mil
             IN  /\ diff \in -4..5
                 /\ m.amount < 0 => out.a.neg
                 /\ m.amount > 0 => ~out.a.neg
                 /\ m.currency = out.c
                 /\ Money_amount(m) = Dec(m.amount < 0, mag.hi, mag.lo * 10, 0)

C3_Witness ==
    /\ out.op = "Construct" /\ out.a = Dec(TRUE, 100, 125, 0)
    /\ Ok(out.res) /\ out.res.val.amount = -10013

\* C4: Construct succeeds exactly when the rounded amount is at most
\* MAX_VALUE and at least MIN_VALUE minor units (the amounts below
\* 21474836.475 and above -21474836.485), reaching both bounds, and fails
\* with MoneyOverflowError otherwise.
C4_ExactBoundary ==
    (out.op = "Construct" /\ Plain(out.a)) =>
        LET a == out.a
            tie == (MAX_VALUE % 100) * 10 + 5 + (IF a.neg THEN 10 ELSE 0)
            fits == a.whole < MaxWhole \/ (a.whole = MaxWhole /\ a.mil < tie)
        IN  /\ fits <=> Ok(out.res)
            /\ ~fits => out.res.err = MoneyOverflowError
            /\ (fits /\ a.whole = MaxWhole /\ a.mil >= tie - 10) =>
                    out.res.val.amount = (IF a.neg THEN MIN_VALUE ELSE MAX_VALUE)

C4_Witness ==
    /\ out.op = "Construct" /\ out.a = Dec(FALSE, MaxWhole, 474, 0)
    /\ Ok(out.res) /\ out.res.val.amount = MAX_VALUE

-----------------------------------------------------------------------------
(* Properties of the ExchangeRateManager (checked under Spec and FairSpec) *)

\* thread t holds a frame that is inside a "with self._lock" block
InLocked(t) == \E i \in 1..Len(stack[t]) : stack[t][i].pc # "enter"

\* some thread is between the first write of an update_rate on the pair and its end
Updating(a, b) ==
    \E t \in Threads :
        /\ stack[t] # <<>> /\ Top(t).fn = "update_rate"
        /\ Top(t).pc \in {"forward", "inverse"}
        /\ {Top(t).from, Top(t).to} = {a, b}

\* the rate an update_rate call u leaves under the key <<a, b>>
Left(u, a, b) == IF u.from = a /\ u.to = b THEN u.rate ELSE FInv(u.rate)

\* the outermost get_rate of t returns from its direct lookup in this step
DirectReturn(t) ==
    /\ Running(t, "get_rate", "lookup") /\ Len(stack[t]) = 1
    /\ stack'[t] = <<>>

\* C5: once update_rate(A, B, r) with r > 0 and A # B has completed and while
\* no other update of the pair is under way, get_rate(A, B) returns r and
\* get_rate(B, A) returns 1.0 / r.
C5_UpdateThenGet ==
    [][\A t \in Threads :
          LET a == Top(t).from
              b == Top(t).to
              u == writer[<<a, b>>]
          IN  (DirectReturn(t) /\ a # b /\ u # Seed /\ ~Updating(a, b)) =>
                  /\ {u.from, u.to} = {a, b}
                  /\ ret'[t].err = NoError
                  /\ ret'[t].val = Left(u, a, b)
                  /\ rates[<<b, a>>] = Left(u, b, a)]_vars

C5_Witness ==
    \E t \in Threads :
        /\ ret[t].fn = "get_rate" /\ ret[t].from = "EUR" /\ ret[t].to = "USD"
        /\ ret[t].err = NoError /\ ret[t].val = R(10, 9)
        /\ writer[<<"EUR", "USD">>] # Seed /\ writer[<<"EUR", "USD">>].rate = R(9, 10)

\* C6 as stated: every live pair has the reverse pair with exactly the
\* inverse rate, from construction onward.
C6_AllPairsInverse ==
    lock = Free =>
        \A k \in DOMAIN rates :
            /\ <<k[2], k[1]>> \in DOMAIN rates
            /\ rates[<<k[2], k[1]>>] = FInv(rates[k])

\* C6 amended: while no update is under way, a pair of distinct currencies
\* last written by an update_rate call holds the rate r of that call in the
\* call's direction and 1.0 / r in the other, both written by that call; a
\* pair that was never updated holds its seed rate.
C6_UpdatedPairsInverse ==
    lock = Free =>
        \A k \in DOMAIN rates :
            LET u == writer[k]
            IN  IF u = Seed THEN k \in DOMAIN SeedRates /\ rates[k] = SeedRates[k]
                ELSE k[1] # k[2] =>
                        /\ {u.from, u.to} = {k[1], k[2]}
                        /\ {<<u.from, u.to>>, <<u.to, u.from>>} \subseteq DOMAIN rates
                        /\ u.rate.n > 0
                        /\ rates[<<u.from, u.to>>] = u.rate
                        /\ rates[<<u.to, u.from>>] = FInv(u.rate)

C6_Witness ==
    /\ lock = Free
    /\ writer[<<"USD", "EUR">>] # Seed
    /\ rates[<<"USD", "EUR">>] = R(2, 1) /\ rates[<<"EUR", "USD">>] = R(1, 2)
    /\ rates[<<"USD", "GBP">>] = R(73, 100) /\ rates[<<"GBP", "USD">>] = R(137, 100)

\* C7: at most one thread is inside a section that accesses the tables, and
\* it holds the lock; when the lock is free both keys of every pair were
\* written by the same update_rate call and every date bucket holds its
\* pairs in both directions.
C7_MutualExclusion ==
    /\ \A t1, t2 \in Threads : (InLocked(t1) /\ InLocked(t2)) => t1 = t2
    /\ \A t \in Threads : InLocked(t) => lock = t
    /\ lock = Free =>
          /\ \A k \in DOMAIN writer :
                /\ <<k[2], k[1]>> \in DOMAIN writer
                /\ writer[<<k[2], k[1]>>] = writer[k]
          /\ \A d \in DOMAIN historical_rates :
                \A k \in DOMAIN historical_rates[d] :
                    /\ <<k[2], k[1]>> \in DOMAIN historical_rates[d]
                    /\ historical_rates[d][<<k[2], k[1]>>] = FInv(historical_rates[d][k])
                          \/ historical_rates[d][k] = FInv(historical_rates[d][<<k[2], k[1]>>])

C7_Witness ==
    \E t1, t2 \in Threads :
        /\ Running(t1, "update_rate", "inverse") /\ Running(t2, "update_rate", "enter")
        /\ Top(t1).from = Top(t2).from /\ Top(t1).to = Top(t2).to
        /\ Top(t1).from # Top(t1).to
        /\ Top(t1).rate # Top(t2).rate /\ Top(t2).rate.n > 0

\* C8: every get_rate call eventually returns a rate or fails.
C8_GetRateReturns ==
    \A t \in Threads :
        (stack[t] # <<>> /\ stack[t][1].fn = "get_rate") ~> (stack[t] = <<>>)

\* the outermost get_rate of t found no direct entry and both legs through USD exist
UsdPath(t) ==
    /\ stack[t] # <<>>
    /\ stack[t][1].fn = "get_rate" /\ stack[t][1].pc = "usd1"
    /\ <<stack[t][1].from, "USD">> \in DOMAIN rates
    /\ <<"USD", stack[t][1].to>> \in DOMAIN rates

\* C9: a get_rate(A, B) that finds no direct entry while (A, USD) and
\* (USD, B) exist returns rate(A, USD) * rate(USD, B).
C9_UsdProduct ==
    \A t \in Threads :
        UsdPath(t) ~>
            /\ ret[t].fn = "get_rate" /\ ret[t].err = NoError
            /\ <<ret[t].from, "USD">> \in DOMAIN rates
            /\ <<"USD", ret[t].to>> \in DOMAIN rates
            /\ ret[t].val = FMul(rates[<<ret[t].from, "USD">>], rates[<<"USD", ret[t].to>>])

\* C10: get_rate(X, X) returns 1.0 whatever the table holds, and its step
\* is never blocked by the lock.
C10_Identity ==
    \A t \in Threads :
        /\ (ret[t].fn = "get_rate" /\ ret[t].from = ret[t].to) =>
                ret[t].err = NoError /\ ret[t].val = One
        /\ (Running(t, "get_rate", "enter") /\ Top(t).from = Top(t).to) =>
                ENABLED GetRateEnter(t)

C10_Witness ==
    \E t \in Threads :
        /\ ret[t].fn = "get_rate" /\ ret[t].from = "USD" /\ ret[t].to = "USD"
        /\ ret[t].val = One
        /\ <<"USD", "USD">> \in DOMAIN rates /\ rates[<<"USD", "USD">>] # One
        /\ lock \notin {Free, t}

\* what the call on top of the stack of t hands over when it leaves in this
\* step: to the frame below it, or to the caller of the thread
Handed(t) ==
    LET n == Len(stack[t])
    IN  IF n = 1 THEN [err |-> ret'[t].err, val |-> ret'[t].val]
                 ELSE stack'[t][n - 1].rv

\* the tables of the manager stay as they are in this step
TablesKept == rates' = rates /\ historical_rates' = historical_rates

\* C11: update_rate and store_historical_rate with a rate <= 0 fail with
\* ValueError in their first step: the live table, the historical table
\* with its set of dates and the lock are the same before and after, and
\* the failed caller does not hold the lock.
C11_RejectedBeforeMutation ==
    [][\A t \in Threads :
          ( /\ stack[t] # <<>>
            /\ Top(t).fn \in {"update_rate", "store_historical_rate"}
            /\ Top(t).pc = "enter" /\ Top(t).rate.n <= 0
            /\ stack'[t] # stack[t] ) =>
                /\ stack'[t] = <<>>
                /\ ret'[t].fn = Top(t).fn
                /\ ret'[t].err = ValueError /\ ret'[t].val = NoArg
                /\ TablesKept
                /\ DOMAIN historical_rates' = DOMAIN historical_rates
                /\ lock' = lock /\ lock' # t]_vars

C11_Witness ==
    \E t, u \in Threads :
        /\ ret[t].fn = "update_rate" /\ ret[t].rate.n <= 0 /\ ret[t].err = ValueError
        /\ ret[u].fn = "store_historical_rate" /\ ret[u].rate.n <= 0
        /\ ret[u].err = ValueError
        /\ ret[u].date \notin DOMAIN historical_rates

\* C12: get_historical_rate(A, B, D) fails with ValueError when D has no
\* bucket, with CurrencyMismatchError when the bucket of D lacks (A, B), and
\* otherwise returns the rate stored for (A, B) on D; it calls nothing, so
\* it derives no cross-rate, and none of its steps changes a table.
C12_HistoricalLookup ==
    [][\A t \in Threads :
          ( /\ stack[t] # <<>> /\ Top(t).fn = "get_historical_rate"
            /\ stack'[t] # stack[t] ) =>
                /\ TablesKept
                /\ Len(stack'[t]) <= Len(stack[t])
                /\ Top(t).pc = "enter" => Len(stack'[t]) = Len(stack[t])
                /\ Top(t).pc = "lookup" =>
                      LET f == Top(t)
                          k == <<f.from, f.to>>
                      IN  /\ Len(stack'[t]) = Len(stack[t]) - 1
                          /\ lock = t /\ lock' = Free
                          /\ f.date \notin DOMAIN historical_rates =>
                                Handed(t) = [err |-> ValueError, val |-> NoArg]
                          /\ ( /\ f.date \in DOMAIN historical_rates
                               /\ k \notin DOMAIN historical_rates[f.date] ) =>
                                Handed(t) = [err |-> CurrencyMismatchError, val |-> NoArg]
                          /\ ( /\ f.date \in DOMAIN historical_rates
                               /\ k \in DOMAIN historical_rates[f.date] ) =>
                                Handed(t) = [err |-> NoError,
                                             val |-> historical_rates[f.date][k]]]_vars

\* the date has a bucket without the pair while the live table has the pair
C12_Witness ==
    \E t \in Threads :
        /\ ret[t].fn = "get_historical_rate"
        /\ ret[t].date \in DOMAIN historical_rates
        /\ <<ret[t].from, ret[t].to>> \notin DOMAIN historical_rates[ret[t].date]
        /\ <<ret[t].from, ret[t].to>> \in DOMAIN rates
        /\ ret[t].err = CurrencyMismatchError /\ ret[t].val = NoArg

\* v minor units are amount * rate rounded to the nearest minor unit, a tie
\* going away from zero
HalfAway(v, amount, rate) ==
    LET sgn == IF amount < 0 THEN -1 ELSE 1
    IN  2 * sgn * (v * rate.d - amount * rate.n) \in (1 - rate.d)..rate.d

\* the bucket of date d, empty when there is none
Bucket(h, d) == IF d \in DOMAIN h THEN h[d] ELSE EmptyDict

\* dictionaries a and b agree on every key other than k
SameBut(a, b, k) ==
    /\ DOMAIN b \ {k} = DOMAIN a \ {k}
    /\ \A j \in DOMAIN a \ {k} : b[j] = a[j]

\* C13: store_historical_rate(A, B, r, D) with r > 0 creates the bucket of
\* D if absent and sets (A, B) to r and (B, A) to 1/r there, leaving the
\* live table and every other date alone; update_rate leaves the historical
\* table alone; and convert with date D returns the amount times the rate
\* of D's bucket rounded to minor units, whatever the live table holds.
C13_HistoricalIsolation ==
    /\ [][\A t \in Threads :
            /\ Running(t, "store_historical_rate", "forward") /\ stack'[t] # stack[t] =>
                 LET f == Top(t)
                 IN  /\ rates' = rates
                     /\ SameBut(historical_rates, historical_rates', f.date)
                     /\ f.date \in DOMAIN historical_rates'
                     /\ SameBut(Bucket(historical_rates, f.date),
                                historical_rates'[f.date], <<f.from, f.to>>)
                     /\ <<f.from, f.to>> \in DOMAIN historical_rates'[f.date]
                     /\ historical_rates'[f.date][<<f.from, f.to>>] = f.rate
            /\ Running(t, "store_historical_rate", "inverse") /\ stack'[t] # stack[t] =>
                 LET f == Top(t)
                 IN  /\ rates' = rates
                     /\ SameBut(historical_rates, historical_rates', f.date)
                     /\ SameBut(historical_rates[f.date],
                                historical_rates'[f.date], <<f.to, f.from>>)
                     /\ <<f.to, f.from>> \in DOMAIN historical_rates'[f.date]
                     /\ historical_rates'[f.date][<<f.to, f.from>>] = FInv(f.rate)
                     /\ ret'[t].err = NoError
            /\ (stack[t] # <<>> /\ Top(t).fn = "update_rate") =>
                 historical_rates' = historical_rates]_vars
    /\ [](\A t \in Threads :
            ( /\ ret[t].fn = "convert" /\ ret[t].date # NoDate
              /\ ret[t].amount.currency # ret[t].to
              /\ ret[t].date \in DOMAIN historical_rates
              /\ <<ret[t].from, ret[t].to>> \in DOMAIN historical_rates[ret[t].date] ) =>
                /\ ret[t].err = NoError
                /\ ret[t].val.currency = ret[t].to
                /\ HalfAway(ret[t].val.amount, ret[t].amount.amount,
                            historical_rates[ret[t].date][<<ret[t].from, ret[t].to>>]))

\* 100 USD converted at the 0.95 stored for D1 after the live rate was updated
C13_Witness ==
    /\ ret[Caller].fn = "convert" /\ ret[Caller].date = "D1"
    /\ ret[Caller].amount = Money(10000, "USD") /\ ret[Caller].to = "EUR"
    /\ ret[Caller].err = NoError /\ ret[Caller].val = Money(9500, "EUR")
    /\ rates[<<"USD", "EUR">>] = R(9, 10)
    /\ historical_rates["D1"][<<"EUR", "USD">>] = R(100, 95)

Unresolvable(f) ==
    IF f.date # NoDate
    THEN \/ f.date \notin DOMAIN historical_rates
         \/ <<f.from, f.to>> \notin DOMAIN historical_rates[f.date]
    ELSE \A k \in DOMAIN rates : k[1] # f.to /\ k[2] # f.to

\* C15: a convert whose rate cannot be resolved fails with
\* CurrencyMismatchError and returns no Money.
C15_FailureIsMismatch ==
    \A t \in Threads :
        ( /\ stack[t] # <<>>
          /\ stack[t][1].fn = "convert" /\ stack[t][1].pc = "rate"
          /\ Unresolvable(stack[t][1]) )
        ~> ( /\ ret[t].fn = "convert"
             /\ ret[t].err = CurrencyMismatchError /\ ret[t].val = NoMoney )

C17_AddThenSubtract ==
    /\ out.op = "SubtractFromSum" =>
          /\ out.other = y /\ x.currency = y.currency
          /\ InRange(WAdd(W(x.amount), W(y.amount)))
          /\ out.res = Return(Money(x.amount, x.currency))
    /\ out.op = "AddToDifference" =>
          /\ out.other = y /\ x.currency = y.currency
          /\ InRange(WSub(W(x.amount), W(y.amount)))
          /\ out.res = Return(Money(x.amount, x.currency))

\* a negative x and y at MAX_VALUE minor units
C17_Witness ==
    /\ out.op = "SubtractFromSum"
    /\ x.amount = -10013 /\ y.amount = MAX_VALUE
    /\ out.self.amount = MAX_VALUE - 10013
    /\ out.res.val = x

\* C18: Multiply returns the minor units nearest to the exact product of
\* the minor units and the scalar, a product that ends in one half going to
\* the integer of larger magnitude.
C18_TiesAway ==
    (out.op = "Multiply" /\ Ok(out.res)) =>
        LET product == WMul(W(out.self.amount), out.f.n)
            diff == WInt(WSub(WMul(W(out.res.val.amount), out.f.d), product))
        IN  \/ diff = 0
            \/ out.f.d = 2 /\ diff = 1 /\ WLeq(W(1), product)
            \/ out.f.d = 2 /\ diff = -1 /\ WLeq(product, W(-1))

\* C19: no operation changes a Money that the caller holds: x and y keep
\* their minor units and currency through every operation, failed ones
\* included, and the operation is recorded with the operands as they are.
C19_OperandsKept ==
    [][ /\ x # NoMoney => x' = x
        /\ y # NoMoney => y' = y
        /\ out'.op \in {"Add", "Subtract", "Multiply", "Divide", "Convert"} =>
              out'.self = x'
        /\ out'.op \in {"Add", "Subtract"} => out'.other = y' ]_vars

\* a sum that differs from both operands, which are as they were
C19_Witness ==
    /\ out.op = "Add" /\ Ok(out.res)
    /\ out.self = x /\ out.other = y
    /\ out.res.val.amount = x.amount + y.amount
    /\ out.res.val # x /\ out.res.val # y

\* C20: two Money values compare equal exactly when they have the same
\* currency and the same minor units.
C20_EqualByValue ==
    out.op = "Equal" =>
        ( out.res.val.eq <=>
            (out.self.currency = out.other.currency /\ out.self.amount = out.other.amount) )

\* a read operation of the manager
Reads == {"get_rate", "get_historical_rate", "convert"}

\* C21: no step of any operation removes a key of the live table, a date
\* of the historical table or a key of a date's bucket, and no step of
\* get_rate, get_historical_rate or convert changes a table.
C21_MonotoneStore ==
    [][ /\ DOMAIN rates \subseteq DOMAIN rates'
        /\ DOMAIN historical_rates \subseteq DOMAIN historical_rates'
        /\ \A d \in DOMAIN historical_rates :
              DOMAIN historical_rates[d] \subseteq DOMAIN historical_rates'[d]
        /\ \A t \in Threads :
              (stack[t] # <<>> /\ Top(t).fn \in Reads /\ stack'[t] # stack[t]) =>
                  TablesKept ]_vars

\* a conversion returned after an update overwrote a seed rate and a store
\* made a bucket
C21_Witness ==
    /\ ret[Caller].fn = "convert" /\ ret[Caller].err = NoError
    /\ rates[<<"USD", "EUR">>] = R(9, 10) /\ rates[<<"EUR", "USD">>] = R(10, 9)
    /\ DOMAIN rates = DOMAIN SeedRates
    /\ historical_rates # EmptyDict

\* C22: every key of the live table that is made of supported currencies
\* is a pair of two distinct currencies, and its rate is above zero.
C22_DistinctPositive ==
    \A k \in DOMAIN rates :
        (k[1] \in Currency /\ k[2] \in Currency) =>
            k[1] # k[2] /\ rates[k].n > 0 /\ rates[k].d > 0

\* the call at the bottom of the stack of t is a get_rate between two
\* different supported currencies
SupportedGetRate(t) ==
    /\ stack[t] # <<>> /\ stack[t][1].fn = "get_rate"
    /\ stack[t][1].from \in Currency /\ stack[t][1].to \in Currency
    /\ stack[t][1].from # stack[t][1].to

Overflows(amount, rate) ==
    LET over == WSub(WMul(W(amount), rate.n), WMul(W(MAX_VALUE), rate.d))
    IN  amount >= 0 /\ WLeq(W(rate.d), WAdd(over, over))

\* the rate that the convert call recorded in r resolved to, if it did
Resolved(r) ==
    IF r.date # NoDate
    THEN /\ r.date \in DOMAIN historical_rates
         /\ <<r.from, r.to>> \in DOMAIN historical_rates[r.date]
    ELSE <<r.from, r.to>> \in DOMAIN rates

RateOf(r) ==
    IF r.date # NoDate THEN historical_rates[r.date][<<r.from, r.to>>]
    ELSE rates[<<r.from, r.to>>]

Agree(r1, r2) ==
    \/ r1.err = NoError /\ r2.err = NoError /\ r1.val = r2.val
    \/ r1.err = MoneyOverflowError /\ r2.err = MoneyOverflowError

\* C28: on a non-empty list of Money of one currency, batch_add and
\* batch_operation(..., "sum") return the same Money or both fail with
\* MoneyOverflowError.
C28_SumsAgree ==
    ( /\ out.op \in {"batch_add", "batch_operation"}
      /\ out.a # <<>> /\ SameCurrency(out.a) ) =>
        /\ out.op = "batch_add" => Agree(out.res, batch_operation_sum(out.a))
        /\ out.op = "batch_operation" => Agree(batch_add_result(out.a), out.res)

\* the number of places of the free list that hold obj
TimesFree(obj) == Cardinality({k \in 1..Len(pool.free) : pool.free[k] = obj})

\* C25: no object is in the free list while it is held as a live value or
\* twice, acquire returns no object that is still held, and the amount and
\* currency of a held value never change.
C25_ExclusiveCheckout ==
    /\ [](\A obj \in live : TimesFree(obj) = 0)
    /\ [](\A k \in 1..Len(pool.free) : TimesFree(pool.free[k]) = 1)
    /\ [][ /\ Len(refs') > Len(refs) => Last(refs') \notin live
           /\ \A obj \in live : objects'[obj] = objects[obj] ]_vars

\* C26: every value obtained from from_money or + has its lock, and +
\* on two held values of one currency whose sum is in range returns a value
\* with the sum as minor units and that currency.
C26_PoolValuesAdd ==
    /\ \A obj \in live : HasLock(obj)
    /\ ( /\ out.op = "__add__"
          /\ out.self.currency = out.other.currency
          /\ InRange(WAdd(out.self.amount, out.other.amount)) ) =>
            /\ out.res.err = NoError
            /\ objects[out.res.val].amount = WAdd(out.self.amount, out.other.amount)
            /\ objects[out.res.val].currency = out.self.currency

\* C24: cached_exchange_rate returns the rate of the live table at the
\* moment of the call, and batch_convert returns for each item the Money
\* that convert returns for it on that table.
C24_CacheFollowsTable ==
    LET r == ret[Caller]
    IN  /\ ( /\ r.fn = "cached_exchange_rate" /\ r.err = NoError
              /\ r.from # r.to ) => r.val = rates[<<r.from, r.to>>]
        /\ ( r.fn = "batch_convert" /\ r.err = NoError ) =>
                \A i \in 1..Len(r.amount) :
                    r.val[i] = convert_direct(r.amount[i], r.to).val

\* the stored count and the number of stored durations of a name
Count(o) == IF o \in DOMAIN operation_counts THEN operation_counts[o] ELSE 0
Stored(o) == IF o \in DOMAIN operation_times THEN Len(operation_times[o]) ELSE 0

\* the batch calls of name o whose record_operation returned and that did
\* not return yet
Recording(o) ==
    {t \in Threads : /\ stack[t] # <<>> /\ stack[t][1].fn = o
                     /\ Len(stack[t]) = 1 /\ stack[t][1].pc = "recorded"}

\* the threads inside the body of record_operation
Recorders ==
    {t \in Threads : /\ stack[t] # <<>> /\ Top(t).fn = "record_operation"
                     /\ Top(t).pc # "enter"}

\* C23: whenever no thread is inside the body of record_operation, the
\* count of each name is the number of its durations and the number of
\* record_operation calls that returned for it; each batch_add and each
\* batch_convert that returned a value recorded one entry, each that
\* raised recorded none, and no thread keeps the lock of the processor
\* after its call.
C23_NoLostUpdate ==
    /\ Recorders = {} =>
          \A o \in OperationNames :
              Count(o) = Stored(o) /\ Count(o) = completed[o].recorded
    /\ \A o \in {"batch_add", "batch_convert"} :
          completed[o].recorded = completed[o].succeeded + Cardinality(Recording(o))
    /\ \A t \in Threads : stack[t] = <<>> => processor_lock # t

\* two record_operation calls of one name returned, and a batch call
\* returned a value or raised
C23_Witness ==
    /\ Recorders = {}
    /\ completed["custom"].recorded = 2 /\ Stored("custom") = 2
    /\ \E t \in Threads : ret[t].fn = "record_operation"
    /\ \E o \in {"batch_add", "batch_convert"} :
          /\ completed[o].failed > 0 \/ completed[o].succeeded > 0
          /\ Count(o) = completed[o].succeeded

====
